---- MODULE Spec2Model ----
(***************************************************************************)
(* State-machine model of the LFSAPI client (simbroadcasts/lfs-api): the   *)
(* token store, the token exchanges and makeRequest, for the builds of the *)
(* class that the repository holds side by side:                           *)
(*   "cjs"  dist/cjs/index.js        (PKCE build, axios)                   *)
(*   "esm"  dist/index.js            (auth flow build, fetch)              *)
(*   "cfg"  src/index.ts, 2nd class  (config-object source, fetch)         *)
(*   "dual" src/index.ts, 1st class  (dual-flow source, fetch)             *)
(*   "v1"   unnamed/part_001         (client-credentials-only build)       *)
(* Every await of the code is a suspension point: an operation is split    *)
(* into the step that runs up to the await and the step that runs when the *)
(* awaited response arrives.  Time (Date.now() / 1000) is the variable     *)
(* now, advanced by Tick between any two steps.                            *)
(***************************************************************************)
EXTENDS Integers, FiniteSets, Sequences, TLC

\* ------------------------------------------------------------- bounds
\* the longest token lifetime (expires_in) the token endpoint grants
MaxDur == 2
\* how far the clock advances during a run
TimeSpan == 3
\* Date.now() / 1000 at construction: seconds since 1970, more than any lifetime
StartTime == MaxDur + 1
MaxTime == StartTime + TimeSpan

Builds == {"cjs", "esm", "cfg", "dual", "v1"}
Calls == {"c1"}
\* the call slots of a manager: Calls, and one more for a call made while
\* another is awaiting
Slots == {"c1", "c2"}
Tokens == {"tokA", "tokB"}
Durations == 1..MaxDur
\* what a caller may pass as the optional token / code argument
Overrides == {"undefined", "", "ovr"}
Verifiers == {"ver1"}
\* what _generateCodeVerifier may draw
GeneratedVerifiers == {"gen1", "gen2"}
\* what a caller may pass as the optional state argument, and the scope
States == {"undefined", "st1"}
Scopes == {"openid"}
AuthCodes == {"code1"}

\* ------------------------------------------------------- JS values
\* JS numbers that occur: a finite number, NaN, or undefined in a number's place
Num(n) == [t |-> "number", v |-> n]
NaN == [t |-> "NaN", v |-> 0]
undefinedNum == [t |-> "undefined", v |-> 0]

\* a + b of JS: anything but two numbers gives NaN
Plus(a, b) == IF a.t = "number" /\ b.t = "number" THEN Num(a.v + b.v) ELSE NaN

\* a > b of JS: false whenever an operand is NaN or undefined
Gt(a, b) == a.t = "number" /\ b.t = "number" /\ a.v > b.v

\* truthiness of a JS string-or-nothing value
Truthy(s) == s \notin {"undefined", "null", ""}

VARIABLES
  build,                    \* which build of the class this manager is
  client_id,                \* typeof this.client_id
  client_secret,            \* typeof this.client_secret
  idURL,                    \* this.idURL
  apiURL,                   \* this.apiURL
  verbose,                  \* this.verbose
  now,                      \* Date.now() / 1000
  spa,                      \* this.spa
  redirect_uri,             \* this.redirect_uri
  pkce,                     \* this.pkce
  client_credentials_flow,  \* this.client_credentials_flow {access_token, expires_in}
  authorization_code_flow,  \* this.authorization_code_flow_access_token / _expires
  authCode,                 \* this.authCode (dual-flow source)
  calls,                    \* the asynchronous calls in progress, per call slot
  lastExchange,             \* history: the last client-credentials exchange that completed
  lastCodeExchange          \* history: the last authorization-code exchange of makeRequest:
                            \* its code and the instant its token expires, if it succeeded

vars == <<build, client_id, client_secret, idURL, apiURL, verbose, now, spa, redirect_uri, pkce, client_credentials_flow,
          authorization_code_flow, authCode, calls, lastExchange,
                 lastCodeExchange>>

NoBody == [grant_type |-> "none", keys |-> {}, code_verifier |-> "undefined"]

\* no URL: what a call holds that has not returned an authURL
NoURL == [path |-> "none", keys |-> {}, response_type |-> "", scope |-> "",
          state |-> "", code_challenge |-> "", code_challenge_method |-> ""]

IdleCall == [pc |-> "idle", op |-> "none", token |-> "undefined", observed |-> "none",
             sent |-> 0, body |-> NoBody, exch |-> "none", bearer |-> "unsent",
             result |-> "none", state |-> "undefined", codeVerifier |-> "none",
             scope |-> "",
             url |-> NoURL, csrfToken |-> "none", answer |-> "none",
             exchResult |-> "none", console |-> {}, sentAt |-> 0]

\* ------------------------------------------------------- constructor
InitialFlow == [access_token |-> IF build \in {"dual", "v1"} THEN "" ELSE "null",
                expires_in |-> Num(0)]

\* typeof of what a caller may pass for client_id and client_secret
ArgTypes == {"string", "undefined"}

\* Does the constructor throw?  Only the first build tests its arguments.
ConstructorThrows(id, secret) ==
  build = "v1" /\ (id # "string" /\ secret # "string")

\* The managers that exist: those whose constructor returned.  The arguments
\* vary where a build is documented with either: the first build, and the
\* secret of the spa manager of the PKCE build.
URLArgs == {"undefined", "https://lfs.test"}

\* The managers that the constructor returns when it is given idArg and
\* apiArg as the endpoint overrides
constructor(idArg, apiArg) ==
  /\ build \in Builds
  /\ client_id \in (IF build = "v1" THEN ArgTypes ELSE {"string"})
  /\ spa \in (IF build = "cjs" THEN BOOLEAN ELSE {FALSE})
  /\ client_secret \in (IF build = "v1" \/ (build = "cjs" /\ spa)
                         THEN ArgTypes ELSE {"string"})
  /\ ~ConstructorThrows(client_id, client_secret)
  /\ verbose = FALSE
  /\ now = StartTime
  /\ redirect_uri \in (IF build = "v1" THEN {"undefined"} ELSE {"undefined", "uri"})
  /\ pkce = [code_verifier |-> "null", code_challenge |-> "null"]
  /\ client_credentials_flow = InitialFlow
  /\ authorization_code_flow = [access_token |-> "", expires_in |-> Num(0)]
  /\ authCode = "null"
  /\ calls = [c \in Slots |-> IdleCall]
  /\ idURL = (IF Truthy(idArg) THEN idArg ELSE "https://id.lfs.net")
  /\ apiURL = (IF Truthy(apiArg) THEN apiArg ELSE "https://api.lfs.net")
  /\ lastExchange = [kind |-> "none", at |-> 0, expires_in |-> undefinedNum]
  /\ lastCodeExchange = [kind |-> "none", until |-> 0, code |-> "undefined"]

\* The managers constructed without endpoint overrides
Init == constructor("undefined", "undefined")

\* ------------------------------------------------------- the network
\* What the token endpoint may answer: a token, a non-2xx error body, no answer
\* at all, or a 2xx body without access_token.
TokenResponses ==
  [kind : {"ok"}, access_token : Tokens, expires_in : {Num(d) : d \in Durations}]
    \cup [kind : {"http", "network"}, access_token : {"undefined"},
          expires_in : {undefinedNum}]
    \cup [kind : {"malformed"}, access_token : {"undefined"},
          expires_in : {undefinedNum} \cup {Num(d) : d \in Durations}]

ApiResponses == {"ok", "http", "network"}

\* Does the awaited promise reject?  axios rejects on a non-2xx status, fetch
\* only when the request itself fails.
Rejects(kind) == IF build = "cjs" THEN kind \in {"http", "network"}
                 ELSE kind = "network"

\* ------------------------------------------------------- token store
\* _clientCredentialsFlowAccessTokenExpired(): Date.now() / 1000 > expires_in
clientCredentialsFlowAccessTokenExpired ==
  Gt(Num(now), client_credentials_flow.expires_in)

\* ShouldRenew without the test of the token argument
ShouldRenewIgnoringOverride(token) ==
  CASE build \in {"cjs", "esm", "v1"} -> clientCredentialsFlowAccessTokenExpired
    [] build = "cfg" -> TRUE
    [] OTHER -> FALSE

\* ShouldRenew testing the token argument the wrong way round
ShouldRenewInverted(token) ==
  CASE build \in {"cjs", "esm"} ->
         Truthy(token) /\ clientCredentialsFlowAccessTokenExpired
    [] build = "cfg" -> Truthy(token) /\ TRUE
    [] build = "v1" -> clientCredentialsFlowAccessTokenExpired
    [] OTHER -> FALSE

\* The condition under which makeRequest renews the client-credentials token.
\* The config-object source names the method without calling it, and a function
\* object is truthy; the first build has no token parameter.
ShouldRenew(token) ==
  CASE build \in {"cjs", "esm"} ->
         ~Truthy(token) /\ clientCredentialsFlowAccessTokenExpired
    [] build = "cfg" -> ~Truthy(token) /\ TRUE
    [] build = "v1" -> clientCredentialsFlowAccessTokenExpired
    [] OTHER -> FALSE

\* StoredExpiry keeping the raw duration in every build
StoredExpiryRaw(res) == res.expires_in

\* The expiry a build stores for a response value res, at the instant of storing.
StoredExpiry(res) ==
  IF build \in {"cjs", "esm", "v1"} THEN Plus(Num(now), res.expires_in)
  ELSE res.expires_in

\* The value the code holds after awaiting the token request: the parsed body,
\* or the caught error object, which has neither field.
TokenResult(resp) ==
  IF Rejects(resp.kind)
  THEN [access_token |-> "undefined", expires_in |-> undefinedNum]
  ELSE [access_token |-> resp.access_token, expires_in |-> resp.expires_in]

\* Stores skipping the write while verbose is on
StoresWhenQuiet(resp) == ~verbose

\* Does the build write the store for this response?  The builds that await a value
\* always do; the builds that store in a then-callback skip it when the promise rejects.
Stores(resp) == build \in {"cjs", "esm", "cfg"} \/ ~Rejects(resp.kind)

NewFlow(resp) == [access_token |-> TokenResult(resp).access_token,
                  expires_in |-> StoredExpiry(TokenResult(resp))]

\* ------------------------------------------------------- request bodies
ClientCredentialsBody ==
  [grant_type |-> "client_credentials",
   keys |-> {"grant_type", "client_id", "client_secret"},
   code_verifier |-> "undefined"]

\* does getAuthFlowTokens take the PKCE branch?
WithPKCE == build = "cjs" /\ spa /\ Truthy(redirect_uri) /\ Truthy(pkce.code_verifier)

\* AuthorizationCodeBody sending the stored challenge as the code_verifier
AuthorizationCodeBodyChallenge ==
  [grant_type |-> "authorization_code",
   keys |-> {"grant_type", "client_id", "redirect_uri", "code"} \cup
            (IF build = "cjs"
             THEN (IF WithPKCE
                   THEN {"code_verifier"}
                   ELSE IF Truthy(redirect_uri) THEN {"client_secret"} ELSE {})
             ELSE {"client_secret"}),
   code_verifier |-> IF WithPKCE THEN pkce.code_challenge ELSE "undefined"]

AuthorizationCodeBody ==
  [grant_type |-> "authorization_code",
   keys |-> {"grant_type", "client_id", "redirect_uri", "code"} \cup
            (IF build = "cjs"
             THEN (IF WithPKCE
                   THEN {"code_verifier"}
                   ELSE IF Truthy(redirect_uri) THEN {"client_secret"} ELSE {})
             ELSE {"client_secret"}),
   code_verifier |-> IF WithPKCE THEN pkce.code_verifier ELSE "undefined"]

\* RefreshTokenBody with client_secret whatever the spa flag is
RefreshTokenBodyWithSecret ==
  [grant_type |-> "refresh_token",
   keys |-> {"grant_type", "refresh_token", "client_id", "client_secret"},
   code_verifier |-> "undefined"]

RefreshTokenBody ==
  [grant_type |-> "refresh_token",
   keys |-> {"grant_type", "refresh_token", "client_id"} \cup
            (IF build = "cjs" /\ spa THEN {} ELSE {"client_secret"}),
   code_verifier |-> "undefined"]

\* ------------------------------------------------------- logging
\* _log, _warn and _error: what a manager whose verbose field is v writes to
\* the console for a message of the given kind
log(v, kind) == IF v THEN {kind} ELSE {}

\* What makeRequest writes before its first await: the compiled builds log
\* the request, the first build logs a renewal, the config-object source
\* nothing
StartLog(v, renews) ==
  IF build \in {"cjs", "esm"} \/ (build = "v1" /\ renews) THEN log(v, "log") ELSE {}

\* The catch of an awaited request calls _error(err)
CatchLog(v, kind) == IF Rejects(kind) THEN log(v, "error") ELSE {}

\* ------------------------------------------------------- makeRequest
\* The bearer token of the resource request, read from the stores cc and ac.
Bearer(token, cc, ac) ==
  CASE build \in {"cjs", "esm", "cfg"} ->
         (IF Truthy(token) THEN token ELSE cc.access_token)
    [] build = "v1" -> cc.access_token
    [] OTHER -> (IF Truthy(token) THEN ac.access_token ELSE cc.access_token)

\* const authCode = code ? code : this.authCode ? this.authCode : undefined
LocalAuthCode(code) ==
  IF Truthy(code) THEN code ELSE IF Truthy(authCode) THEN authCode ELSE "undefined"

Observed == IF clientCredentialsFlowAccessTokenExpired THEN "expired" ELSE "valid"

\* The call when makeRequest(endpoint, token) reaches its first await: the
\* token request if it renews, the resource request if not
makeRequestCall(token) ==
  IF ShouldRenew(token)
  THEN [IdleCall EXCEPT !.pc = "token", !.op = "makeRequest", !.token = token,
                        !.console = StartLog(verbose, TRUE),
                        !.observed = Observed, !.sent = 1,
                        !.sentAt = now,
                        !.body = ClientCredentialsBody]
  ELSE [IdleCall EXCEPT !.pc = "api", !.op = "makeRequest", !.token = token,
                        !.console = StartLog(verbose, FALSE),
                        !.observed = Observed,
                        !.bearer = Bearer(token, client_credentials_flow,
                                          authorization_code_flow)]

\* makeRequest(endpoint, token) up to its first await
makeRequest(c, token) ==
  /\ calls[c].pc = "idle"
  /\ build # "dual"
  /\ build = "v1" => token = "undefined"
  /\ calls' = [calls EXCEPT ![c] = makeRequestCall(token)]
  /\ UNCHANGED <<build, client_id, client_secret, idURL, apiURL, verbose, now, spa, redirect_uri, pkce, client_credentials_flow,
                 authorization_code_flow, authCode, lastExchange,
                 lastCodeExchange>>

\* The call when makeRequest(endpoint, code) of the dual-flow source reaches
\* its first await: one of the two exchanges is always started
makeRequestDualCall(code) ==
  [IdleCall EXCEPT !.pc = "token", !.op = "makeRequest",
                   !.token = LocalAuthCode(code),
                   !.console = {"authCode"},
                   !.observed = Observed, !.sent = 1,
                   !.body = IF ~Truthy(LocalAuthCode(code))
                               /\ clientCredentialsFlowAccessTokenExpired
                            THEN ClientCredentialsBody
                            ELSE AuthorizationCodeBody]

\* makeRequest(endpoint, code) of the dual-flow source up to its first await
makeRequestDual(c, code) ==
  /\ calls[c].pc = "idle"
  /\ build = "dual"
  /\ calls' = [calls EXCEPT ![c] = makeRequestDualCall(code)]
  /\ UNCHANGED <<build, client_id, client_secret, idURL, apiURL, verbose, now, spa, redirect_uri, pkce, client_credentials_flow,
                 authorization_code_flow, authCode, lastExchange,
                 lastCodeExchange>>

\* The two stores after the client-credentials exchange stores its response:
\* <<client_credentials_flow, authorization_code_flow>>
StoreClientCredentials(resp) ==
  <<IF Stores(resp) THEN NewFlow(resp) ELSE client_credentials_flow,
    authorization_code_flow>>

\* StoreAuthorizationCode writing the client-credentials fields
StoreAuthorizationCodeIntoOther(resp) ==
  <<IF Stores(resp) THEN NewFlow(resp) ELSE client_credentials_flow,
    authorization_code_flow>>

\* The two stores after the authorization-code exchange of the dual-flow source
\* stores its response
StoreAuthorizationCode(resp) ==
  <<client_credentials_flow,
    IF Stores(resp) THEN NewFlow(resp) ELSE authorization_code_flow>>

\* What the exchange run inside makeRequest hands back to makeRequest:
\* _getClientCredentialsFlowAccessToken has no return statement, in no build
ExchangeResult(resp) == "undefined"

\* The two stores after the exchange of call has stored the response
TokenResponseStores(call, resp) ==
  IF call.body.grant_type = "client_credentials"
  THEN StoreClientCredentials(resp) ELSE StoreAuthorizationCode(resp)

\* TokenResponseCall with the bearer token read from the stores as they were
\* before the response was stored
TokenResponseCallStaleBearer(call, resp) ==
  [call EXCEPT !.pc = "api", !.exch = resp.kind, !.sentAt = 0,
               !.exchResult = ExchangeResult(resp),
               !.console = @ \cup CatchLog(verbose, resp.kind),
               !.bearer = Bearer(call.token, client_credentials_flow,
                                 authorization_code_flow)]

\* The call when the exchange it awaited has returned and the resource
\* request is sent, with the bearer token read from the stores as they are then
TokenResponseCall(call, resp) ==
  [call EXCEPT !.pc = "api", !.exch = resp.kind, !.sentAt = 0,
               !.exchResult = ExchangeResult(resp),
               !.console = @ \cup CatchLog(verbose, resp.kind),
               !.bearer = Bearer(call.token, TokenResponseStores(call, resp)[1],
                                 TokenResponseStores(call, resp)[2])]

\* The token endpoint answers the exchange a makeRequest call awaits: the
\* response is stored (or not) and the resource request is sent.
TokenResponse(c, resp) ==
  /\ calls[c].pc = "token"
  /\ calls[c].op = "makeRequest"
  /\ IF calls[c].body.grant_type = "client_credentials"
     THEN /\ client_credentials_flow' = StoreClientCredentials(resp)[1]
          /\ authorization_code_flow' = StoreClientCredentials(resp)[2]
          /\ lastExchange' = [kind |-> resp.kind, at |-> now,
                              expires_in |-> resp.expires_in]
          /\ UNCHANGED lastCodeExchange
     ELSE /\ client_credentials_flow' = StoreAuthorizationCode(resp)[1]
          /\ authorization_code_flow' = StoreAuthorizationCode(resp)[2]
          /\ UNCHANGED lastExchange
          /\ lastCodeExchange' =
               IF resp.kind = "ok"
               THEN [kind |-> "ok", until |-> now + resp.expires_in.v,
                     code |-> calls[c].token]
               ELSE [kind |-> "failed", until |-> 0, code |-> "undefined"]
  /\ calls' = [calls EXCEPT ![c] = TokenResponseCall(calls[c], resp)]
  /\ UNCHANGED <<build, client_id, client_secret, idURL, apiURL, verbose, now, spa, redirect_uri, pkce, authCode>>

\* ApiResult returning the caught error whether or not it carries a response
ApiResultRawOnly(kind) == IF kind = "ok" THEN "payload" ELSE "rawError"

\* What makeRequest returns for an answer of the resource endpoint.
ApiResult(kind) ==
  CASE kind = "ok" -> "payload"
    [] kind = "http" -> "errorBody"
    [] OTHER -> "rawError"

\* The call when makeRequest returns
ApiResponseCall(call, kind) ==
  [call EXCEPT !.pc = "idle", !.answer = kind,
               !.console = @ \cup CatchLog(verbose, kind),
               !.result = ApiResult(kind)]

ApiResponse(c, kind) ==
  /\ calls[c].pc = "api"
  /\ calls' = [calls EXCEPT ![c] = ApiResponseCall(calls[c], kind)]
  /\ UNCHANGED <<build, client_id, client_secret, idURL, apiURL, verbose, now, spa, redirect_uri, pkce, client_credentials_flow,
                 authorization_code_flow, authCode, lastExchange,
                 lastCodeExchange>>

\* ------------------------------------------------------- token operations
\* The call when getAuthFlowTokens awaits the token endpoint
getAuthFlowTokensCall ==
  [IdleCall EXCEPT !.pc = "token", !.op = "getAuthFlowTokens", !.sent = 1,
                   !.body = AuthorizationCodeBody]

getAuthFlowTokens(c) ==
  /\ calls[c].pc = "idle"
  /\ build \in {"cjs", "esm", "cfg"}
  /\ calls' = [calls EXCEPT ![c] = getAuthFlowTokensCall]
  /\ UNCHANGED <<build, client_id, client_secret, idURL, apiURL, verbose, now, spa, redirect_uri, pkce, client_credentials_flow,
                 authorization_code_flow, authCode, lastExchange,
                 lastCodeExchange>>

\* The call when refreshAccessToken awaits the token endpoint
refreshAccessTokenCall ==
  [IdleCall EXCEPT !.pc = "token", !.op = "refreshAccessToken", !.sent = 1,
                   !.body = RefreshTokenBody]

refreshAccessToken(c) ==
  /\ calls[c].pc = "idle"
  /\ build \in {"cjs", "esm", "cfg"}
  /\ calls' = [calls EXCEPT ![c] = refreshAccessTokenCall]
  /\ UNCHANGED <<build, client_id, client_secret, idURL, apiURL, verbose, now, spa, redirect_uri, pkce, client_credentials_flow,
                 authorization_code_flow, authCode, lastExchange,
                 lastCodeExchange>>

\* What _getAccessToken returns to the caller of a token operation.
AccessTokenResult(resp) ==
  IF Rejects(resp.kind) THEN "rawError"
  ELSE CASE resp.kind = "ok" -> "tokens"
         [] resp.kind = "http" -> "errorBody"
         [] OTHER -> "body"

\* The call when getAuthFlowTokens or refreshAccessToken returns
AccessTokenResponseCall(call, resp) ==
  [call EXCEPT !.pc = "idle", !.exch = resp.kind,
               !.exchResult = AccessTokenResult(resp),
               !.console = @ \cup CatchLog(verbose, resp.kind),
               !.result = AccessTokenResult(resp)]

\* The token endpoint answers getAuthFlowTokens or refreshAccessToken: the
\* result is returned, nothing is stored.
AccessTokenResponse(c, resp) ==
  /\ calls[c].pc = "token"
  /\ calls[c].op \in {"getAuthFlowTokens", "refreshAccessToken"}
  /\ calls' = [calls EXCEPT ![c] = AccessTokenResponseCall(calls[c], resp)]
  /\ UNCHANGED <<build, client_id, client_secret, idURL, apiURL, verbose, now, spa, redirect_uri, pkce, client_credentials_flow,
                 authorization_code_flow, authCode, lastExchange,
                 lastCodeExchange>>

\* ------------------------------------------------------- PKCE pair
\* sha256(verifier) of js-sha256, a hex string, as the sequence of its
\* characters.  The digest is shortened to two bytes: like the 32 bytes of
\* SHA-256 their number is 2 modulo 3, so btoa ends the encoding with one "=".
sha256(verifier) ==
  CASE verifier = "gen1" -> <<"f", "b", "f", "f">>
    [] verifier = "gen2" -> <<"0", "0", "1", "0">>
    [] verifier = "ver1" -> <<"3", "e", "9", "1">>
    [] OTHER -> <<"a", "5", "a", "5">>

HexDigits == <<"0", "1", "2", "3", "4", "5", "6", "7",
               "8", "9", "a", "b", "c", "d", "e", "f">>

\* parseInt(byte, 16) of a pair of hex characters
parseInt16(hi, lo) ==
  16 * ((CHOOSE i \in 1..16 : HexDigits[i] = hi) - 1)
    + ((CHOOSE i \in 1..16 : HexDigits[i] = lo) - 1)

\* hex.match(/.{1,2}/g).map((byte) => parseInt(byte, 16))
HexToBytes(hex) ==
  [i \in 1..(Len(hex) \div 2) |-> parseInt16(hex[2 * i - 1], hex[2 * i])]

Base64Alphabet ==
  <<"A", "B", "C", "D", "E", "F", "G", "H", "I", "J", "K", "L", "M",
    "N", "O", "P", "Q", "R", "S", "T", "U", "V", "W", "X", "Y", "Z",
    "a", "b", "c", "d", "e", "f", "g", "h", "i", "j", "k", "l", "m",
    "n", "o", "p", "q", "r", "s", "t", "u", "v", "w", "x", "y", "z",
    "0", "1", "2", "3", "4", "5", "6", "7", "8", "9", "+", "/">>

Sextet(n) == Base64Alphabet[(n % 64) + 1]

\* btoa of the string whose char codes are bytes, as a sequence of characters
RECURSIVE btoa(_)
btoa(bytes) ==
  CASE Len(bytes) = 0 -> <<>>
    [] Len(bytes) = 1 ->
         <<Sextet(bytes[1] \div 4), Sextet((bytes[1] % 4) * 16), "=", "=">>
    [] Len(bytes) = 2 ->
         <<Sextet(bytes[1] \div 4),
           Sextet((bytes[1] % 4) * 16 + bytes[2] \div 16),
           Sextet((bytes[2] % 16) * 4), "=">>
    [] OTHER ->
         <<Sextet(bytes[1] \div 4),
           Sextet((bytes[1] % 4) * 16 + bytes[2] \div 16),
           Sextet((bytes[2] % 16) * 4 + bytes[3] \div 64),
           Sextet(bytes[3])>> \o btoa(SubSeq(bytes, 4, Len(bytes)))

\* .slice(0, -1)
SliceLast(chars) == SubSeq(chars, 1, Len(chars) - 1)

\* the characters as they are, "+" and "/" included
ReplaceNothing(chars) == chars

\* .replace(/[+]/g, "-").replace(/\//g, "_")
ReplaceUrlUnsafe(chars) ==
  [i \in 1..Len(chars) |->
     IF chars[i] = "+" THEN "-" ELSE IF chars[i] = "/" THEN "_" ELSE chars[i]]

\* the string made of a sequence of characters
RECURSIVE Join(_)
Join(chars) == IF chars = <<>> THEN "" ELSE Head(chars) \o Join(Tail(chars))

\* the characters of _generateCodeChallengeFromVerifier(verifier)
codeChallengeChars(verifier) ==
  ReplaceUrlUnsafe(SliceLast(btoa(HexToBytes(sha256(verifier)))))

\* _generateCodeChallengeFromVerifier(verifier)
generateCodeChallengeFromVerifier(verifier) == Join(codeChallengeChars(verifier))

\* the pair _generatePKCEPair stores, keeping the verifier stored before
PKCEPairKeepingVerifier(codeVerifier) ==
  [code_verifier |-> pkce.code_verifier,
   code_challenge |-> generateCodeChallengeFromVerifier(codeVerifier)]

\* the pair _generatePKCEPair stores for the verifier it drew
PKCEPair(codeVerifier) ==
  [code_verifier |-> codeVerifier,
   code_challenge |-> generateCodeChallengeFromVerifier(codeVerifier)]

\* ------------------------------------------------------- generateAuthFlowURL
\* Does the URL get the PKCE parameters, the stored pair being p?
AddsChallenge(p) ==
  build = "cjs" /\ spa /\ Truthy(redirect_uri) /\ Truthy(p.code_challenge)

\* AuthURL with the PKCE parameters whatever the flags are
AuthURLAlwaysChallenge(scope, csrfToken, p) ==
  [path |-> "/oauth2/authorize",
   keys |-> {"response_type", "client_id", "redirect_uri", "scope", "state",
             "code_challenge", "code_challenge_method"},
   response_type |-> "code", scope |-> scope, state |-> csrfToken,
   code_challenge |-> p.code_challenge, code_challenge_method |-> "S256"]

\* `${this.idURL}/oauth2/authorize?${authURLParams}`, the stored pair being p
AuthURL(scope, csrfToken, p) ==
  [path |-> "/oauth2/authorize",
   keys |-> {"response_type", "client_id", "redirect_uri", "scope", "state"}
              \cup (IF AddsChallenge(p)
                    THEN {"code_challenge", "code_challenge_method"} ELSE {}),
   response_type |-> "code", scope |-> scope, state |-> csrfToken,
   code_challenge |-> IF AddsChallenge(p) THEN p.code_challenge ELSE "",
   code_challenge_method |-> IF AddsChallenge(p) THEN "S256" ELSE ""]

\* CsrfToken generating a UUID whether or not a state is given
CsrfTokenAlwaysNew(state) == "uuid"

\* const csrfToken = state ? state : uuidv4()
CsrfToken(state) == IF Truthy(state) THEN state ELSE "uuid"

\* Does generateAuthFlowURL return { authURL, csrfToken }?  The dual-flow
\* source always does, the compiled builds only with a redirect_uri.
ReturnsAuthURL == build = "dual" \/ Truthy(redirect_uri)

\* The call record when generateAuthFlowURL returns, the stored pair being p
Returned(call, p) ==
  IF ReturnsAuthURL
  THEN [call EXCEPT !.pc = "idle", !.result = "authURL",
                    !.url = AuthURL(call.scope, call.csrfToken, p)]
  ELSE [call EXCEPT !.pc = "idle", !.result = "undefined",
                    !.console = log(verbose, "error")]

\* The call when generateAuthFlowURL(scope, state) reaches its first await,
\* which only the spa manager of the PKCE build has (_generatePKCEPair, the
\* verifier already drawn); without it the call returns at once
generateAuthFlowURLCall(scope, state, codeVerifier) ==
  LET call == [IdleCall EXCEPT !.op = "generateAuthFlowURL", !.scope = scope,
                               !.state = state, !.csrfToken = CsrfToken(state)]
  IN IF build = "cjs" /\ spa
     THEN [call EXCEPT !.pc = "pkce", !.codeVerifier = codeVerifier]
     ELSE Returned(call, pkce)

\* generateAuthFlowURL(scope, state) up to its first await
generateAuthFlowURL(c, scope, state, codeVerifier) ==
  /\ calls[c].pc = "idle"
  /\ build \in {"cjs", "esm", "dual"}
  /\ calls' = [calls EXCEPT ![c] = generateAuthFlowURLCall(scope, state, codeVerifier)]
  /\ UNCHANGED <<build, client_id, client_secret, idURL, apiURL, verbose, now, spa, redirect_uri, pkce, client_credentials_flow,
                 authorization_code_flow, authCode, lastExchange,
                 lastCodeExchange>>

\* _generatePKCEPair resumes: the pair is stored, and generateAuthFlowURL
\* builds the URL from the stored pair and returns
PKCEPairGenerated(c) ==
  /\ calls[c].pc = "pkce"
  /\ pkce' = PKCEPair(calls[c].codeVerifier)
  /\ calls' = [calls EXCEPT ![c] = Returned(calls[c], pkce')]
  /\ UNCHANGED <<build, client_id, client_secret, idURL, apiURL, verbose, now, spa, redirect_uri, client_credentials_flow,
                 authorization_code_flow, authCode, lastExchange,
                 lastCodeExchange>>

\* ------------------------------------------------------- setters
\* what a caller may pass to setVerbose: a boolean, or something else
\* (t is its typeof, b its truthiness)
VerboseArgs == [t : {"boolean"}, b : BOOLEAN]
                 \cup {[t |-> "string", b |-> TRUE], [t |-> "undefined", b |-> FALSE]}

\* the verbose field after setVerbose(v): if (typeof v === "boolean") this.verbose = v
VerboseAfter(v) == IF v.t = "boolean" THEN v.b ELSE verbose

setVerbose(v) ==
  /\ verbose' = VerboseAfter(v)
  /\ UNCHANGED <<build, client_id, client_secret, idURL, apiURL, now, spa, redirect_uri, pkce,
                 client_credentials_flow, authorization_code_flow, authCode,
                 calls, lastExchange,
                 lastCodeExchange>>

\* getPKCEVerifier()
getPKCEVerifier == pkce.code_verifier

setAuthCode(code) ==
  /\ build = "dual"
  /\ authCode' = code
  /\ UNCHANGED <<build, client_id, client_secret, idURL, apiURL, verbose, now, spa, redirect_uri, pkce, client_credentials_flow,
                 authorization_code_flow, calls, lastExchange,
                 lastCodeExchange>>

\* setPKCEVerifier switching the manager to the single-page flow as well
setPKCEVerifierAsSPA(code_verifier) ==
  /\ build = "cjs"
  /\ pkce' = [pkce EXCEPT !.code_verifier = code_verifier]
  /\ spa' = TRUE
  /\ UNCHANGED <<build, client_id, client_secret, idURL, apiURL, verbose, now,
                 redirect_uri, client_credentials_flow, authorization_code_flow,
                 authCode, calls, lastExchange, lastCodeExchange>>

setPKCEVerifier(code_verifier) ==
  /\ build = "cjs"
  /\ pkce' = [pkce EXCEPT !.code_verifier = code_verifier]
  /\ UNCHANGED <<build, client_id, client_secret, idURL, apiURL, verbose, now, spa, redirect_uri, client_credentials_flow,
                 authorization_code_flow, authCode, calls, lastExchange,
                 lastCodeExchange>>

\* ------------------------------------------------------- time
Tick ==
  /\ now < MaxTime
  /\ now' = now + 1
  /\ UNCHANGED <<build, client_id, client_secret, idURL, apiURL, verbose, spa, redirect_uri, pkce, client_credentials_flow,
                 authorization_code_flow, authCode, calls, lastExchange,
                 lastCodeExchange>>

Next ==
  \/ Tick
  \/ \E c \in Calls, token \in Overrides : makeRequest(c, token)
  \/ \E c \in Calls, code \in Overrides : makeRequestDual(c, code)
  \/ \E c \in Calls, resp \in TokenResponses : TokenResponse(c, resp)
  \/ \E c \in Calls, kind \in ApiResponses : ApiResponse(c, kind)
  \/ \E c \in Calls : getAuthFlowTokens(c)
  \/ \E c \in Calls : refreshAccessToken(c)
  \/ \E c \in Calls, resp \in TokenResponses : AccessTokenResponse(c, resp)
  \/ \E code \in AuthCodes : setAuthCode(code)
  \/ \E v \in Verifiers : setPKCEVerifier(v)
  \/ \E c \in Calls, scope \in Scopes, state \in States,
        codeVerifier \in GeneratedVerifiers :
       generateAuthFlowURL(c, scope, state, codeVerifier)
  \/ \E c \in Calls : PKCEPairGenerated(c)

Spec == Init /\ [][Next]_vars

\* ------------------------------------------------------- concurrent callers
\* Two makeRequest calls of one manager without a token override, the second
\* made while the first awaits: the PKCE build constructed for the
\* client-credentials flow.
InitConc ==
  /\ Init
  /\ build = "cjs"
  /\ ~spa
  /\ redirect_uri = "undefined"

NextConc ==
  \/ Tick
  \/ \E c \in Slots : makeRequest(c, "undefined")
  \/ \E c \in Slots, resp \in TokenResponses : TokenResponse(c, resp)
  \/ \E c \in Slots, kind \in ApiResponses : ApiResponse(c, kind)

SpecConc == InitConc /\ [][NextConc]_vars

\* ------------------------------------------------------- verbose callers
\* The PKCE build with setVerbose called between any two steps, at one instant
\* the answers of the token endpoint in these runs: one token of the shortest
\* lifetime, and every kind of failure
VerboseResponses ==
  {r \in TokenResponses :
     r.access_token # "tokB" /\ r.expires_in \in {Num(1), undefinedNum}}

InitVerbose ==
  /\ Init
  /\ build = "cjs"
  /\ client_secret = "string"

NextVerbose ==
  \/ \E v \in VerboseArgs : setVerbose(v)
  \/ \E c \in Calls, token \in Overrides : makeRequest(c, token)
  \/ \E c \in Calls, resp \in VerboseResponses : TokenResponse(c, resp)
  \/ \E c \in Calls, kind \in ApiResponses : ApiResponse(c, kind)
  \/ \E c \in Calls : getAuthFlowTokens(c)
  \/ \E c \in Calls : refreshAccessToken(c)
  \/ \E c \in Calls, resp \in VerboseResponses : AccessTokenResponse(c, resp)
  \/ \E v \in Verifiers : setPKCEVerifier(v)
  \/ \E c \in Calls, scope \in Scopes, state \in States,
        codeVerifier \in GeneratedVerifiers :
       generateAuthFlowURL(c, scope, state, codeVerifier)
  \/ \E c \in Calls : PKCEPairGenerated(c)

SpecVerbose == InitVerbose /\ [][NextVerbose]_vars

\* ------------------------------------------------------- identity
\* The PKCE build constructed with or without endpoint overrides, and every
\* public operation of it, setVerbose included
InitIdentity ==
  /\ \E idArg \in URLArgs, apiArg \in URLArgs : constructor(idArg, apiArg)
  /\ build = "cjs"
  /\ client_secret = "string"

SpecIdentity == InitIdentity /\ [][NextVerbose]_vars

\* ======================================================= claims
Failures == {"http", "network", "malformed"}

\* The instant t0 + d at which the token of the last successful exchange expires
LastExpiryInstant == lastExchange.at + lastExchange.expires_in.v

\* C1: in the PKCE build, a token stored at t0 with expires_in d is reported
\* not-expired at every instant in [t0, t0+d) and expired at every instant
\* >= t0+d, the instant t0+d itself included.
C1_ExpiryCorrectness ==
  (build = "cjs" /\ lastExchange.kind = "ok")
    => (clientCredentialsFlowAccessTokenExpired <=> now >= LastExpiryInstant)

\* C2: when the exchange started by makeRequest fails, makeRequest returns that
\* failure and sends no resource request with the stored token.
C2_FailedExchangeIsReturned ==
  \A c \in Calls :
    (build = "cjs" /\ calls[c].op = "makeRequest" /\ calls[c].exch \in Failures)
      => /\ calls[c].bearer = "unsent"
         /\ calls[c].pc = "idle"
         /\ calls[c].result = "exchangeError"

\* C3: once the last exchange has failed, every resource request still carries
\* the caller's override or an access_token returned by a successful exchange,
\* never an empty, null or undefined bearer token.
C3_NoEmptyBearer ==
  \A c \in Calls :
    (build \in {"cjs", "esm"} /\ lastExchange.kind \in Failures
       /\ calls[c].bearer # "unsent")
      => /\ Truthy(calls[c].bearer)
         /\ calls[c].bearer \in Tokens \cup {calls[c].token}

\* C4: after a failed client-credentials exchange the stored token is still
\* reported expired, so that the next makeRequest starts a new exchange.
C4_FailureLeavesExpired ==
  (build = "cjs" /\ lastExchange.kind \in Failures)
    => clientCredentialsFlowAccessTokenExpired

\* The step taken is a step of call c, an invocation of op
StepOf(c, op) == calls'[c] # calls[c] /\ calls'[c].op = op

\* C5: a makeRequest given a non-empty token override makes no token-endpoint
\* request, leaves the stored client-credentials record unchanged and sends
\* exactly the override as bearer token, whether or not the stored token is
\* expired.
C5_OverrideBypass ==
  /\ [](\A c \in Calls :
          (build \in {"cjs", "esm", "cfg"} /\ calls[c].op = "makeRequest"
             /\ Truthy(calls[c].token))
            => /\ calls[c].sent = 0
               /\ calls[c].exch = "none"
               /\ calls[c].bearer = calls[c].token)
  /\ [][\A c \in Calls :
          (build \in {"cjs", "esm", "cfg"} /\ StepOf(c, "makeRequest")
             /\ Truthy(calls'[c].token))
            => UNCHANGED <<client_credentials_flow, lastExchange>>]_vars

\* C5 witness: an override request has been answered while the stored token
\* was expired
C5_Witness ==
  \E c \in Calls :
    /\ build = "cjs"
    /\ calls[c].op = "makeRequest"
    /\ calls[c].token = "ovr"
    /\ calls[c].bearer = "ovr"
    /\ calls[c].result = "payload"
    /\ clientCredentialsFlowAccessTokenExpired

\* C6: in the compiled builds, once an exchange has succeeded at t0 with
\* expires_in d, a makeRequest without override started before t0+d makes no
\* token-endpoint request and sends the stored access_token; the passing of
\* time alone changes nothing in the store.
C6_ReuseUntilExpiry ==
  /\ [][\A c \in Calls :
       (/\ build \in {"cjs", "esm"}
        /\ lastExchange.kind = "ok"
        /\ now < LastExpiryInstant
        /\ calls[c].pc = "idle"
        /\ StepOf(c, "makeRequest")
        /\ ~Truthy(calls'[c].token))
         => /\ calls'[c].sent = 0
            /\ calls'[c].pc = "api"
            /\ calls'[c].bearer = client_credentials_flow.access_token
            /\ calls'[c].bearer \in Tokens
            /\ UNCHANGED client_credentials_flow]_vars
  /\ [][now' # now => UNCHANGED client_credentials_flow]_vars

\* C6 witness: a later request reused the stored token of an exchange that
\* succeeded at an earlier instant
C6_Witness ==
  \E c \in Calls :
    /\ build = "esm"
    /\ lastExchange.kind = "ok"
    /\ lastExchange.at < now
    /\ now < LastExpiryInstant
    /\ calls[c].op = "makeRequest"
    /\ ~Truthy(calls[c].token)
    /\ calls[c].observed = "valid"
    /\ calls[c].sent = 0
    /\ calls[c].bearer = client_credentials_flow.access_token

\* C7: in the config-object source a makeRequest without override exchanges
\* only if the stored token is expired: while the token of a successful
\* exchange has not reached its expiry instant, the call reuses it and does not
\* contact the token endpoint.
C7_RenewOnlyWhenExpired ==
  [][\A c \in Calls :
       (/\ build = "cfg"
        /\ lastExchange.kind = "ok"
        /\ now < LastExpiryInstant
        /\ calls[c].pc = "idle"
        /\ StepOf(c, "makeRequest")
        /\ ~Truthy(calls'[c].token))
         => /\ calls'[c].sent = 0
            /\ calls'[c].bearer = client_credentials_flow.access_token]_vars

\* C8: in the TypeScript sources the expiry stored by a successful exchange is
\* the absolute instant (time of storing + expires_in), never the raw duration.
C8_AbsoluteExpiry ==
  (build \in {"dual", "cfg"} /\ lastExchange.kind = "ok")
    => client_credentials_flow.expires_in = Num(LastExpiryInstant)

\* C9: a makeRequest without override that observes an expired (or never
\* issued) token sends exactly one token request, a client_credentials grant
\* with client_id and client_secret, and the first call on a fresh manager
\* does so.
C9_OneExchangePerCall ==
  \A c \in Calls :
    /\ (calls[c].op = "makeRequest" /\ ~Truthy(calls[c].token)
          /\ calls[c].observed = "expired")
         => /\ calls[c].sent = 1
            /\ calls[c].body.grant_type = "client_credentials"
            /\ {"grant_type", "client_id", "client_secret"} \subseteq calls[c].body.keys
    /\ (calls[c].op = "makeRequest" /\ ~Truthy(calls[c].token)
          /\ lastExchange.kind = "none" /\ calls[c].exch = "none")
         => /\ calls[c].observed = "expired"
            /\ calls[c].sent = 1
    /\ calls[c].sent <= 1

\* C9 witness: the first call on a fresh manager of the first build has sent
\* its one client_credentials request and awaits the answer
C9_Witness ==
  \E c \in Calls :
    /\ build = "v1"
    /\ lastExchange.kind = "none"
    /\ calls[c].op = "makeRequest"
    /\ calls[c].pc = "token"
    /\ calls[c].observed = "expired"
    /\ calls[c].sent = 1
    /\ calls[c].body = ClientCredentialsBody

\* C10: flow isolation.  In the dual-flow source the client-credentials
\* exchange never changes the authorization-code token and expiry, and the
\* authorization-code exchange never changes the client-credentials token and
\* expiry; in the PKCE build getAuthFlowTokens and refreshAccessToken never
\* change client_credentials_flow.
C10_FlowIsolation ==
  [][\A c \in Calls :
       /\ (build = "dual" /\ StepOf(c, "makeRequest")
             /\ calls'[c].body.grant_type = "client_credentials")
            => UNCHANGED authorization_code_flow
       /\ (build = "dual" /\ StepOf(c, "makeRequest")
             /\ calls'[c].body.grant_type = "authorization_code")
            => UNCHANGED client_credentials_flow
       /\ (build = "cjs" /\ (StepOf(c, "getAuthFlowTokens")
                               \/ StepOf(c, "refreshAccessToken")))
            => UNCHANGED client_credentials_flow]_vars

\* C10 witness: an authorization-code exchange has stored its token while a
\* client-credentials token of an earlier exchange is in the other store
C10_Witness ==
  \E c \in Calls :
    /\ build = "dual"
    /\ calls[c].body.grant_type = "authorization_code"
    /\ calls[c].exch = "ok"
    /\ authorization_code_flow.access_token \in Tokens
    /\ client_credentials_flow.access_token \in Tokens
    /\ client_credentials_flow.access_token # authorization_code_flow.access_token

\* The client-credentials exchanges awaiting the token endpoint
ExchangesInFlight ==
  {c \in Slots : calls[c].pc = "token" /\ calls[c].op = "makeRequest"
                   /\ calls[c].body.grant_type = "client_credentials"}

\* C11: single flight.  Of the makeRequest calls without override that
\* observe an expired token, at most one has a client-credentials exchange in
\* flight at any time; a second concurrent call does not start its own.
C11_SingleFlight == Cardinality(ExchangesInFlight) <= 1

\* C12: every authorization_code request built by getAuthFlowTokens of the
\* PKCE build holds grant_type, client_id, redirect_uri and code, plus exactly
\* one of client_secret and code_verifier, whatever the spa flag, the
\* redirect_uri and the stored verifier are.
C12_ExactlyOneCredential ==
  \A c \in Calls :
    (build = "cjs" /\ calls[c].op = "getAuthFlowTokens")
      => /\ calls[c].body.grant_type = "authorization_code"
         /\ {"grant_type", "client_id", "redirect_uri", "code"}
              \subseteq calls[c].body.keys
         /\ Cardinality(calls[c].body.keys \cap {"client_secret", "code_verifier"}) = 1

\* C13: a manager constructed with the spa flag never puts client_secret in a
\* token-endpoint request, whatever sequence of setPKCEVerifier,
\* getAuthFlowTokens, refreshAccessToken and makeRequest is run on it,
\* getAuthFlowTokens without a stored verifier and makeRequest without override
\* included.
C13_NoSecretFromSPA ==
  \A c \in Calls :
    (build = "cjs" /\ spa) => "client_secret" \notin calls[c].body.keys

C15_PlainAuthURL ==
  /\ [][\A c \in Calls :
          (/\ build \in {"cjs", "esm"} /\ ~spa /\ Truthy(redirect_uri)
           /\ StepOf(c, "generateAuthFlowURL"))
            => /\ calls'[c].pc = "idle"
               /\ calls'[c].result = "authURL"
               /\ calls'[c].url.path = "/oauth2/authorize"
               /\ calls'[c].url.keys = {"response_type", "client_id",
                                         "redirect_uri", "scope", "state"}
               /\ calls'[c].url.response_type = "code"
               /\ calls'[c].url.scope = calls'[c].scope
               /\ Truthy(calls'[c].state) => calls'[c].url.state = calls'[c].state
               /\ calls'[c].url.state = calls'[c].csrfToken
               /\ calls'[c].codeVerifier = "none"
               /\ UNCHANGED pkce]_vars
  /\ []((build \in {"cjs", "esm"} /\ ~spa)
          => /\ pkce.code_challenge = "null"
             /\ pkce.code_verifier \notin GeneratedVerifiers)

\* C15 witness: a manager without the spa flag has returned a URL with the
\* caller's state while a verifier put there by setPKCEVerifier is stored
C15_Witness ==
  \E c \in Calls :
    /\ build = "cjs" /\ ~spa /\ redirect_uri = "uri"
    /\ calls[c].op = "generateAuthFlowURL"
    /\ calls[c].result = "authURL"
    /\ calls[c].url.state = "st1"
    /\ "code_challenge" \notin calls[c].url.keys
    /\ pkce.code_verifier = "ver1"

\* C16: on a manager constructed without redirect_uri, for the
\* client-credentials flow, generateAuthFlowURL never returns an authURL: the
\* call ends without a URL.
C16_NoAuthURLForClientCredentials ==
  \A c \in Calls :
    (/\ build \in {"cjs", "esm", "dual"}
     /\ ~Truthy(redirect_uri)
     /\ calls[c].op = "generateAuthFlowURL"
     /\ calls[c].pc = "idle")
      => /\ calls[c].result # "authURL"
         /\ calls[c].url = NoURL

\* C17: the constructor of the client-credentials-only build raises an error
\* whenever client_id is not a string or client_secret is not a string, so a
\* manager of that build exists only with both of them strings.
C17_ConstructorRejectsNonString ==
  build = "v1" => (client_id = "string" /\ client_secret = "string")

\* C18: constructing a manager of the PKCE build with the spa flag and a
\* client_secret is rejected, so no manager has both spa and a client_secret.
C18_NoSecretWithSPA ==
  (build = "cjs" /\ spa) => client_secret = "undefined"

\* C19: when the resource request of makeRequest fails, the PKCE build
\* returns the parsed error body if the error carries a response (a non-2xx
\* answer) and the raw error otherwise (no answer); a failure is never returned
\* as a success payload.
C19_ResourceErrorResult ==
  \A c \in Calls :
    (build = "cjs" /\ calls[c].op = "makeRequest" /\ calls[c].pc = "idle")
      => /\ calls[c].answer = "http" => calls[c].result = "errorBody"
         /\ calls[c].answer = "network" => calls[c].result = "rawError"
         /\ calls[c].answer # "ok" => calls[c].result # "payload"
         /\ calls[c].answer = "ok" => calls[c].result = "payload"

\* C19 witness: after a successful exchange the resource endpoint answered
\* non-2xx and makeRequest returned the error body
C19_Witness ==
  \E c \in Calls :
    /\ build = "cjs"
    /\ calls[c].op = "makeRequest"
    /\ calls[c].pc = "idle"
    /\ calls[c].exch = "ok"
    /\ calls[c].bearer \in Tokens
    /\ calls[c].answer = "http"
    /\ calls[c].result = "errorBody"

\* What an operation's token exchange hands back for a response
ExchangeReturn(op, resp) ==
  IF op = "makeRequest" THEN ExchangeResult(resp) ELSE AccessTokenResult(resp)

\* What it hands back for the successful responses
SuccessReturns(op) ==
  {ExchangeReturn(op, resp) : resp \in {r \in TokenResponses : r.kind = "ok"}}

\* C20: in the PKCE build getAuthFlowTokens, refreshAccessToken and the
\* client-credentials exchange inside makeRequest do not throw on an HTTP or
\* network failure: the call goes on, and the exchange hands back an error
\* result that differs from every result it hands back on success.
C20_FailureIsReturnedDistinct ==
  \A c \in Calls :
    (build = "cjs" /\ calls[c].exch \in {"http", "network"})
      => /\ calls[c].pc \in {"api", "idle"}
         /\ calls[c].exchResult # "none"
         /\ calls[c].exchResult \notin SuccessReturns(calls[c].op)

\* a call without what it wrote to the console
Quiet(call) == [call EXCEPT !.console = {}]

\* Between the state before and the state after the step taken, the step A of
\* call c is possible in both or in neither, and in both it takes the call to
\* the record x (its request, bearer token and result), the token store to cc
\* and the PKCE pair to p, console output aside.
SameStep(A, c, x, cc, p) ==
  /\ (ENABLED A) <=> (ENABLED A)'
  /\ (ENABLED A) =>
       \A out \in {<<Quiet(x), cc, p>>} :
         /\ ENABLED (A /\ <<Quiet(calls'[c]), client_credentials_flow', pkce'>> = out)
         /\ (ENABLED (A /\ <<Quiet(calls'[c]), client_credentials_flow', pkce'>> = out))'

\* C21: the verbose toggle does not affect behaviour.  setVerbose changes the
\* verbose field only, and only when given a boolean; and from two states of a
\* manager that differ in verbose only, every operation step and every network
\* response is possible alike, makes the same request, leaves the same token
\* store and PKCE pair and returns the same result.
C21_VerboseNonInterference ==
  /\ [][verbose' # verbose
          => UNCHANGED <<build, client_id, client_secret, now, spa, redirect_uri,
                         pkce, client_credentials_flow, authorization_code_flow,
                         authCode, calls, lastExchange>>]_vars
  /\ [](\A v \in VerboseArgs :
          VerboseAfter(v) = IF v.t = "boolean" THEN v.b ELSE verbose)
  /\ [][verbose' # verbose =>
        \A c \in Calls :
          /\ \A token \in Overrides :
               SameStep(makeRequest(c, token), c, makeRequestCall(token),
                        client_credentials_flow, pkce)
          /\ \A resp \in VerboseResponses :
               SameStep(TokenResponse(c, resp), c, TokenResponseCall(calls[c], resp),
                        TokenResponseStores(calls[c], resp)[1], pkce)
          /\ \A kind \in ApiResponses :
               SameStep(ApiResponse(c, kind), c, ApiResponseCall(calls[c], kind),
                        client_credentials_flow, pkce)
          /\ SameStep(getAuthFlowTokens(c), c, getAuthFlowTokensCall,
                      client_credentials_flow, pkce)
          /\ SameStep(refreshAccessToken(c), c, refreshAccessTokenCall,
                      client_credentials_flow, pkce)
          /\ \A resp \in VerboseResponses :
               SameStep(AccessTokenResponse(c, resp), c,
                        AccessTokenResponseCall(calls[c], resp),
                        client_credentials_flow, pkce)
          /\ \A v \in Verifiers :
               SameStep(setPKCEVerifier(v), c, calls[c], client_credentials_flow,
                        [pkce EXCEPT !.code_verifier = v])
          /\ \A scope \in Scopes, state \in States, codeVerifier \in GeneratedVerifiers :
               SameStep(generateAuthFlowURL(c, scope, state, codeVerifier), c,
                        generateAuthFlowURLCall(scope, state, codeVerifier),
                        client_credentials_flow, pkce)
          /\ SameStep(PKCEPairGenerated(c), c,
                      Returned(calls[c], PKCEPair(calls[c].codeVerifier)),
                      client_credentials_flow, PKCEPair(calls[c].codeVerifier))]_vars

\* C21 witness: verbose was switched on while a makeRequest awaited the token
\* endpoint; the exchange failed, the error was logged and the call went on to
\* its result
C21_Witness ==
  \E c \in Calls :
    /\ verbose
    /\ calls[c].op = "makeRequest"
    /\ calls[c].exch = "http"
    /\ calls[c].console = {"error"}
    /\ calls[c].result = "errorBody"

\* C22: within one makeRequest call without override that observes an
\* expired token, no resource request is sent while the token endpoint has not
\* answered; the answer is stored, and the resource request then sent carries
\* the access_token that is in the store at that point, the one of this answer.
C22_StoreBeforeResourceRequest ==
  /\ [](\A c \in Calls :
          (calls[c].op = "makeRequest" /\ calls[c].pc = "token")
            => (calls[c].bearer = "unsent" /\ calls[c].result = "none"))
  /\ [][\A c \in Calls :
          (/\ build \in {"cjs", "esm"}
           /\ calls[c].op = "makeRequest"
           /\ calls[c].pc = "token"
           /\ calls[c].observed = "expired"
           /\ ~Truthy(calls[c].token)
           /\ calls'[c] # calls[c])
            => /\ calls'[c].pc = "api"
               /\ calls'[c].bearer = client_credentials_flow'.access_token
               /\ \E resp \in TokenResponses :
                    /\ resp.kind = calls'[c].exch
                    /\ client_credentials_flow' = NewFlow(resp)
                    /\ resp.kind = "ok" => calls'[c].bearer = resp.access_token]_vars

\* C22 witness: a token stored earlier was observed expired, the exchange
\* returned another token, and the resource request carries the new one
C22_Witness ==
  \E c \in Calls :
    /\ build = "cjs"
    /\ calls[c].op = "makeRequest"
    /\ calls[c].observed = "expired"
    /\ calls[c].exch = "ok"
    /\ calls[c].pc = "api"
    /\ lastExchange.at > StartTime + 1
    /\ calls[c].bearer = "tokB"
    /\ client_credentials_flow.access_token = "tokB"

\* C23: every request built by refreshAccessToken of the compiled builds is
\* a refresh_token grant with refresh_token and client_id, and with
\* client_secret if and only if the spa flag is not set; the operation stores
\* nothing in the manager.
C23_RefreshRequest ==
  /\ [](\A c \in Calls :
          (build \in {"cjs", "esm"} /\ calls[c].op = "refreshAccessToken")
            => /\ calls[c].sent = 1
               /\ calls[c].body.grant_type = "refresh_token"
               /\ {"grant_type", "refresh_token", "client_id"}
                    \subseteq calls[c].body.keys
               /\ calls[c].body.keys
                    \subseteq {"grant_type", "refresh_token", "client_id", "client_secret"}
               /\ ("client_secret" \in calls[c].body.keys) <=> ~spa)
  /\ [][\A c \in Calls :
          (build \in {"cjs", "esm"} /\ StepOf(c, "refreshAccessToken"))
            => UNCHANGED <<client_credentials_flow, authorization_code_flow, pkce,
                           authCode, lastExchange, verbose>>]_vars

\* C23 witness: refreshAccessToken of an spa manager has returned tokens for a
\* request without client_secret
C23_Witness ==
  \E c \in Calls :
    /\ build = "cjs" /\ spa
    /\ calls[c].op = "refreshAccessToken"
    /\ calls[c].result = "tokens"
    /\ "client_secret" \notin calls[c].body.keys

\* C24: for every generateAuthFlowURL call that returns a URL, the returned
\* csrfToken is the value of the state parameter of the returned authURL; it
\* is the caller's state when one is given, and a generated UUID when none is.
C24_CsrfTokenIsState ==
  \A c \in Calls :
    (calls[c].op = "generateAuthFlowURL" /\ calls[c].result = "authURL")
      => /\ "state" \in calls[c].url.keys
         /\ calls[c].url.state = calls[c].csrfToken
         /\ Truthy(calls[c].state) => calls[c].csrfToken = calls[c].state
         /\ ~Truthy(calls[c].state) => calls[c].csrfToken = "uuid"

\* C24 witness: the dual-flow source has returned a URL for a call without
\* state, its state parameter and csrfToken the generated UUID
C24_Witness ==
  \E c \in Calls :
    /\ build = "dual"
    /\ calls[c].op = "generateAuthFlowURL"
    /\ calls[c].result = "authURL"
    /\ calls[c].state = "undefined"
    /\ calls[c].url.state = "uuid"
    /\ calls[c].csrfToken = "uuid"

\* the Base64URL alphabet of RFC 4648, section 5
Base64UrlAlphabet ==
  [i \in 1..64 |->
     IF Base64Alphabet[i] = "+" THEN "-"
     ELSE IF Base64Alphabet[i] = "/" THEN "_" ELSE Base64Alphabet[i]]

UrlSextet(n) == Base64UrlAlphabet[(n % 64) + 1]

\* the Base64URL encoding of a byte sequence, without padding
RECURSIVE Base64UrlUnpadded(_)
Base64UrlUnpadded(bytes) ==
  CASE Len(bytes) = 0 -> <<>>
    [] Len(bytes) = 1 ->
         <<UrlSextet(bytes[1] \div 4), UrlSextet((bytes[1] % 4) * 16)>>
    [] Len(bytes) = 2 ->
         <<UrlSextet(bytes[1] \div 4),
           UrlSextet((bytes[1] % 4) * 16 + bytes[2] \div 16),
           UrlSextet((bytes[2] % 16) * 4)>>
    [] OTHER ->
         <<UrlSextet(bytes[1] \div 4),
           UrlSextet((bytes[1] % 4) * 16 + bytes[2] \div 16),
           UrlSextet((bytes[2] % 16) * 4 + bytes[3] \div 64),
           UrlSextet(bytes[3])>> \o Base64UrlUnpadded(SubSeq(bytes, 4, Len(bytes)))

AllVerifiers == Verifiers \cup GeneratedVerifiers

\* C25: in every state of the manager the challenge derived from a verifier
\* is the same value, the unpadded Base64URL encoding of the SHA-256 digest
\* of the verifier, and so holds no "+", "/" or "="; the challenge that
\* _generatePKCEPair stores is that value for the verifier it drew
C25_ChallengeIsPureBase64Url ==
  /\ [](\A v \in AllVerifiers :
         /\ codeChallengeChars(v) = Base64UrlUnpadded(HexToBytes(sha256(v)))
         /\ \A i \in 1..Len(codeChallengeChars(v)) :
              codeChallengeChars(v)[i] \notin {"+", "/", "="})
  /\ [][\A c \in Calls :
          (calls[c].pc = "pkce" /\ calls'[c].pc # "pkce")
            => pkce'.code_challenge
                 = Join(Base64UrlUnpadded(HexToBytes(sha256(calls[c].codeVerifier))))]_vars

\* C25 witness: a challenge has been derived from a verifier whose digest
\* encodes to "+" and "/" in plain Base64, and stored
C25_Witness ==
  \E c \in Calls :
    /\ calls[c].op = "generateAuthFlowURL"
    /\ calls[c].pc = "idle"
    /\ calls[c].codeVerifier = "gen1"
    /\ pkce.code_verifier = "gen1"
    /\ pkce.code_challenge = "-_8"
    /\ "+" \in {btoa(HexToBytes(sha256("gen1")))[i] : i \in 1..4}
    /\ "/" \in {btoa(HexToBytes(sha256("gen1")))[i] : i \in 1..4}
    /\ "=" \in {btoa(HexToBytes(sha256("gen1")))[i] : i \in 1..4}

\* what a step stores as the code verifier: the argument of setPKCEVerifier,
\* or the verifier _generatePKCEPair drew; "none" for every other step
StoredVerifier ==
  IF \E v \in Verifiers : setPKCEVerifier(v)
  THEN CHOOSE v \in Verifiers : setPKCEVerifier(v)
  ELSE IF \E c \in Calls : PKCEPairGenerated(c)
  THEN calls[CHOOSE c \in Calls : PKCEPairGenerated(c)].codeVerifier
  ELSE "none"

\* C26: after setPKCEVerifier(v), getPKCEVerifier() returns v; the stored
\* verifier changes only when setPKCEVerifier or generateAuthFlowURL stores
\* one; and getAuthFlowTokens of a single-page manager with a redirect_uri
\* and a stored verifier sends exactly that verifier as code_verifier
C26_SendsStoredVerifier ==
  /\ [][\A v \in Verifiers : setPKCEVerifier(v) => getPKCEVerifier' = v]_vars
  /\ [][IF StoredVerifier = "none"
        THEN getPKCEVerifier' = getPKCEVerifier
        ELSE getPKCEVerifier' = StoredVerifier]_vars
  /\ [][\A c \in Calls :
          (getAuthFlowTokens(c) /\ build = "cjs" /\ spa /\ Truthy(redirect_uri)
             /\ Truthy(getPKCEVerifier))
            => /\ "code_verifier" \in calls'[c].body.keys
               /\ calls'[c].body.code_verifier = getPKCEVerifier]_vars

\* C26 witness: setPKCEVerifier has replaced the verifier of a generated pair
\* and getAuthFlowTokens has sent the new one
C26_Witness ==
  \E c \in Calls :
    /\ build = "cjs" /\ spa /\ Truthy(redirect_uri)
    /\ pkce.code_challenge = generateCodeChallengeFromVerifier("gen1")
    /\ getPKCEVerifier = "ver1"
    /\ calls[c].op = "getAuthFlowTokens"
    /\ calls[c].pc = "token"
    /\ calls[c].body.code_verifier = "ver1"

\* C27: in every state the stored PKCE pair is consistent: verifier and
\* challenge are both unset, or the challenge is the one derived from the
\* stored verifier
C27_PKCEPairConsistent ==
  \/ pkce.code_verifier = "null" /\ pkce.code_challenge = "null"
  \/ /\ pkce.code_verifier # "null"
     /\ pkce.code_challenge = generateCodeChallengeFromVerifier(pkce.code_verifier)

\* C28: under every interleaving of makeRequest calls the client-credentials
\* record changes only when a token response is stored, that response is not
\* a failed exchange, and the token and the expiry of the new record both
\* come from that one response
C28_StoreReplacedOnSuccessOnly ==
  [][client_credentials_flow' # client_credentials_flow
       => \E c \in Slots, resp \in TokenResponses :
            /\ TokenResponse(c, resp)
            /\ resp.kind \notin {"http", "network"}
            /\ client_credentials_flow'
                 = [access_token |-> resp.access_token,
                    expires_in |-> Plus(Num(now), resp.expires_in)]]_vars

\* C29: when the answer to a client-credentials exchange is stored, the stored
\* expiry is the instant the token endpoint issued the token plus expires_in,
\* whichever instant between the sending of the request and the storing of
\* the answer that was
C29_ExpiryFromIssuance ==
  [][\A c \in Calls :
       (/\ build \in {"cjs", "esm", "v1"}
        /\ calls[c].pc = "token"
        /\ calls[c].body.grant_type = "client_credentials"
        /\ TokenResponse(c, [kind |-> "ok",
                             access_token |-> client_credentials_flow'.access_token,
                             expires_in |-> lastExchange'.expires_in]))
         => \A issued \in calls[c].sentAt..now :
              client_credentials_flow'.expires_in
                = Num(issued + lastExchange'.expires_in.v)]_vars

\* C30: a makeRequest of the dual-flow source sends an authorization_code
\* request to the token endpoint only when a code is available to it, as its
\* argument or from setAuthCode, whatever the client-credentials token is
C30_AuthorizationCodeNeedsCode ==
  \A c \in Calls :
    (build = "dual" /\ calls[c].op = "makeRequest"
       /\ calls[c].body.grant_type = "authorization_code")
      => Truthy(calls[c].token)

\* C31: in the dual-flow source, once an authorization-code exchange for a
\* code has succeeded, a makeRequest that uses that code before the token
\* expires sends no request to the token endpoint and sends the stored
\* authorization-code access token
C31_ReusesAuthorizationCodeToken ==
  [][\A c \in Calls :
       (/\ build = "dual"
        /\ lastCodeExchange.kind = "ok"
        /\ now < lastCodeExchange.until
        /\ calls[c].pc = "idle"
        /\ StepOf(c, "makeRequest")
        /\ Truthy(calls'[c].token)
        /\ calls'[c].token = lastCodeExchange.code)
         => /\ calls'[c].sent = 0
            /\ calls'[c].body.grant_type # "authorization_code"
            /\ calls'[c].bearer = authorization_code_flow.access_token]_vars

\* C32: a manager whose verbose field has been false since construction has
\* written nothing to the console, whatever operations were called
C32_QuietUnlessVerbose ==
  ~verbose => \A c \in Calls : calls[c].console = {}

\* C33: no step of a generateAuthFlowURL call on a manager without
\* redirect_uri, a call that fails, changes a field of the manager; in
\* particular the stored PKCE pair stays as it was
C33_FailedAuthURLChangesNothing ==
  [][\A c \in Calls :
       (/\ build \in {"cjs", "esm"}
        /\ ~Truthy(redirect_uri)
        /\ StepOf(c, "generateAuthFlowURL"))
         => /\ calls'[c].pc = "idle" => calls'[c].result = "undefined"
            /\ UNCHANGED <<pkce, client_credentials_flow, authorization_code_flow,
                           authCode, client_id, client_secret, redirect_uri,
                           spa, verbose>>]_vars

\* C34: no step of a public operation changes client_id, client_secret,
\* redirect_uri, the spa flag, idURL or apiURL: they keep the values the
\* constructor gave them
C34_IdentityFixedAtConstruction ==
  [][UNCHANGED <<client_id, client_secret, redirect_uri, spa, idURL, apiURL>>]_vars

\* C34 witness: on a manager constructed with an idURL override, setVerbose
\* and setPKCEVerifier have acted and a makeRequest has returned a payload
C34_Witness ==
  \E c \in Calls :
    /\ idURL = "https://lfs.test"
    /\ apiURL = "https://api.lfs.net"
    /\ verbose
    /\ getPKCEVerifier = "ver1"
    /\ calls[c].op = "makeRequest"
    /\ calls[c].result = "payload"

====
